---- MODULE Spec2Model ----
(***************************************************************************)
(* Model of the DistrictBuilder "setup" management command                 *)
(* (redistricting/management/commands/setup.py): hierarchy reconciliation  *)
(* (import_prereq), the geounit importer (import_geolevel, import_shape),  *)
(* the characteristic quantizer, the database views (create_views) and the *)
(* provisioning of the map server (configure_geoserver, rest_config).      *)
(*                                                                         *)
(* Database tables are sequences of rows; a row's id is its index, so the  *)
(* order of a table is the order of creation.                              *)
(***************************************************************************)
EXTENDS Integers, Sequences, FiniteSets, TLC

(***************************************************************************)
(* Bounds of the model.                                                    *)
(***************************************************************************)
\* how many times the command is run against the same database
MaxRuns == 2
\* the largest number of features in the shapefile layer
MaxFeatures == 2
\* raw attribute values range over -MaxRaw..MaxRaw millionths
MaxRaw == 160

(***************************************************************************)
(* The configuration document (lines 85, 99-100: XSD validated and id-ref  *)
(* checked).  Element ids are strings; NoRef stands for an absent          *)
(* attribute or element.                                                   *)
(***************************************************************************)
NoRef == "none"

\* <Subject id= aliasfor= field= />
SubjectElem(id, aliasfor, field) ==
    [id |-> id, aliasfor |-> aliasfor, field |-> field]

\* <Target id= subjectref= value= />
TargetElem(id, subjectref, value) ==
    [id |-> id, subjectref |-> subjectref, value |-> value]

\* <LegislativeTarget ref= default= />; default is "absent", "true" or "false"
LegTargetElem(ref, default) == [ref |-> ref, default |-> default]

\* GeoLevel/LegislativeBodies/LegislativeBody: ref, optional Parent, targets
LegBodyRef(ref, parent, targs) ==
    [ref |-> ref, parent |-> parent, targets |-> targs]

\* <GeoLevel id= name= > with its LegislativeBodies
GeoLevelElem(name, lbodies) == [name |-> name, lbodies |-> lbodies]

\* <LegislativeBody id= name= />
BodyElems == << [id |-> "b1", name |-> "B1"], [id |-> "b2", name |-> "B2"] >>

\* s1 is never an alias; s2 may alias s1; s3 may alias s1 or s2 (a chain).
\* Subjects read fields of their own; an alias may name the field of the
\* subject it stands for.
SubjectLists ==
    { l \in { << SubjectElem("s1", NoRef, "f1"),
                 SubjectElem("s2", a2, f2),
                 SubjectElem("s3", a3, "f3") >> :
               a2 \in {NoRef, "s1"}, a3 \in {NoRef, "s1", "s2"},
               f2 \in {"f1", "f2"} } :
        l[2].field = "f1" => l[2].aliasfor = "s1" }

\* t1 and t2 carry the same value, so they share a row when s2 aliases s1
TargetLists ==
    { << TargetElem("t1", "s1", 1), TargetElem("t2", "s2", 1),
         TargetElem("t3", "s3", 2) >>,
      << TargetElem("t1", "s1", 1), TargetElem("t2", "s2", 1) >> }

\* the LegislativeTargets lists a LegislativeBody reference may carry
LegTargetLists ==
    { << LegTargetElem("t1", "absent") >>,
      << LegTargetElem("t1", "true") >>,
      << LegTargetElem("t1", "false") >>,
      << LegTargetElem("t2", "absent") >>,
      << LegTargetElem("t1", "true"), LegTargetElem("t2", "true") >>,
      << LegTargetElem("t2", "absent"), LegTargetElem("t1", "false") >> }

ConfigOf(subjs, targs, geolevels) ==
    [bodies |-> BodyElems, subjects |-> subjs, targets |-> targs,
     geolevels |-> geolevels]

\* configurations exercising the hierarchy: two GeoLevels, g1 declared first
PrereqGeoLevels ==
    { << GeoLevelElem("g1", l1), GeoLevelElem("g2", l2) >> :
        l1 \in { << LegBodyRef("b1", p, ts) >> :
                    p \in {NoRef, "g2"}, ts \in LegTargetLists }
             \cup { << LegBodyRef("b1", NoRef, ts),
                       LegBodyRef("b1", "g1", ts) >> :
                    ts \in { << LegTargetElem("t1", "absent") >> } }
             \cup { << >> },
        l2 \in { << LegBodyRef(b, p, ts) >> :
                    b \in {"b1", "b2"}, p \in {NoRef, "g1"},
                    ts \in LegTargetLists } }

PrereqConfigs ==
    { ConfigOf(s, t, g) :
        s \in { x \in SubjectLists : x[2].field = "f2" },
        t \in TargetLists, g \in PrereqGeoLevels }


(***************************************************************************)
(* State.                                                                  *)
(***************************************************************************)
VARIABLES
    config,            \* the parsed configuration (handle, line 85)
    optlevels,         \* options.get("geolevels") (line 104)
    run,               \* number of the current run of the command
    pc,                \* the statement the run is at
    error,             \* the exception that ended the run, or "none"
    idx,               \* loop index of the bodies, subjects, targets and
                       \* views loops
    gi, li, ki,        \* geolevel, LegislativeBody reference, LegislativeTarget
    lvl,               \* enumerate index of handle's GeoLevel loop (line 109)
    legislative_body,  \* local of import_prereq (line 559): a row id
    glvl,              \* local of import_prereq (line 546): a row id
    targObj,           \* obj of line 529, per configured Target (0: not yet)
    bodyRows, subjectRows, targetRows, geolevelRows,
    levelRows, defaultsRows, userRows,
    children,          \* the Subject children of each Subject element
    subject_fields,    \* gconfig['subject_fields'] (line 462)
    subject_objects,   \* local of import_shape (line 639): field -> row id
    shapefile,         \* the layer of the shapefile at config['shapepath']
    fi,                \* enumerate index i of the feature loop (line 656)
    my_geom,           \* local of import_shape (lines 668, 670, 711)
    g,                 \* local of import_shape (line 707): a Geounit row id
    pending,           \* fields subject_objects.iteritems() has yet to yield
    geounitRows, charRows,
    raw, number,       \* the quantizer's input and result (line 720)
    options,           \* handle's options debug, views, geoserver (lines 54-63)
    imported,          \* the GeoLevel indexes import_geolevel was called for
    views,             \* the views of the database, by name
    extent,            \* local of handle (line 120)
    styledir,          \* the names of the files in the styles directory
    calls,             \* the REST calls the run issued, with their answers
    rsp                \* local of rest_config (line 383): the last response

runVars == << run, pc, error, idx, gi, li, ki, lvl, legislative_body, glvl,
             targObj >>
catalogVars == << bodyRows, subjectRows, targetRows, geolevelRows,
                  levelRows, defaultsRows, userRows >>
importVars == << children, subject_fields, subject_objects, shapefile, fi,
                 my_geom, g, pending, geounitRows, charRows >>
quantVars == << raw, number >>
handleVars == << options, imported, views, extent, styledir, calls, rsp >>
vars == << config, optlevels, runVars, catalogVars, importVars, quantVars,
          handleVars >>

(***************************************************************************)
(* Django ORM and XPath helpers.                                           *)
(***************************************************************************)
\* Manager.get: the single matching row, else an exception
GetError(ids) ==
    IF ids = {} THEN "DoesNotExist"
    ELSE IF Cardinality(ids) > 1 THEN "MultipleObjectsReturned"
    ELSE "none"

TheOne(ids) == CHOOSE i \in ids : TRUE

\* QuerySet[0]: the first matching row in table order
First(ids) == CHOOSE i \in ids : \A j \in ids : i <= j

\* a get_or_create that never finds the row it looks up
GetOrCreateAgain(rows, rec) == Append(rows, rec)

\* Manager.get_or_create with every field a lookup: the table afterwards
GetOrCreate(rows, rec) ==
    IF \E i \in 1..Len(rows) : rows[i] = rec THEN rows ELSE Append(rows, rec)

\* ... and the id of the row it returns
RowOf(rows, rec) == First({ i \in 1..Len(rows) : rows[i] = rec })

\* config.xpath('//Subject[@id="%s"]' % id)[0]
SubjectConfig(id) ==
    config.subjects[CHOOSE i \in 1..Len(config.subjects) :
                        config.subjects[i].id = id]

\* config.xpath('//Target[@id="%s"]' % id)[0]
TargetConfig(id) ==
    config.targets[CHOOSE i \in 1..Len(config.targets) :
                       config.targets[i].id = id]

\* config.xpath('//LegislativeBody[@id="%s"]' % id)[0]
BodyConfig(id) ==
    config.bodies[CHOOSE i \in 1..Len(config.bodies) :
                      config.bodies[i].id = id]

\* lines 524-526 and 566-568: one dereference of a subject alias
Deref(sconfig) ==
    IF sconfig.aliasfor # NoRef
    THEN SubjectConfig(sconfig.aliasfor) ELSE sconfig

\* Subject.objects.filter(name=name): the ids of the matching rows
SubjectsNamed(name) ==
    { i \in 1..Len(subjectRows) : subjectRows[i].name = name }

\* Target.objects.filter(subject=subject, value=value, ...)
TargetsWith(subject, value) ==
    { i \in 1..Len(targetRows) :
        targetRows[i].subject = subject /\ targetRows[i].value = value }

\* the exception raised by the statement the run is at, "none" while it runs
Failed == error # "none"

Fail(exc) == /\ error' = exc
             /\ UNCHANGED << run, pc, idx, gi, li, ki, lvl, legislative_body,
                             glvl, targObj >>

\* options.get("geolevels"): None without -g, else the list of its values
NoLevels == [given |-> FALSE, values |-> << >>]
Levels(values) == [given |-> TRUE, values |-> values]

\* handle's options other than config and geolevels; templates are not
\* modelled
Options(debug, optviews, geoserver) ==
    [debug |-> debug, views |-> optviews, geoserver |-> geoserver]
NoOptions == Options(FALSE, FALSE, FALSE)

\* what handle does after create_views (lines 119-121)
AfterViews == IF options.geoserver THEN "extent" ELSE "done"

\* what handle does after the import loop (lines 115-117)
AfterLevels == IF options.views THEN "views" ELSE AfterViews

\* what handle does after import_prereq returns (lines 104-105)
AfterPrereq == IF optlevels.given THEN "levels" ELSE AfterLevels


(***************************************************************************)
(* import_prereq (lines 478-617).  Each loop iteration is one step; an     *)
(* exception leaves every row committed so far in place and ends the run.  *)
(***************************************************************************)
\* lines 487-497: get_or_create each LegislativeBody
ImportBody ==
    /\ pc = "bodies" /\ ~Failed
    /\ bodyRows' = GetOrCreate(bodyRows, [name |-> config.bodies[idx].name])
    /\ IF idx < Len(config.bodies)
       THEN idx' = idx + 1 /\ pc' = pc
       ELSE idx' = 1 /\ pc' = "subjects"
    /\ UNCHANGED << config, optlevels, run, error, gi, li, ki, lvl,
                    legislative_body, glvl, targObj, subjectRows, targetRows,
                    geolevelRows, levelRows, defaultsRows, userRows,
                    importVars, quantVars, handleVars >>

\* a test that skips no Subject element
IsAliasNever(subj) == FALSE

\* line 503: is this Subject element skipped as an alias
IsAlias(subj) == subj.aliasfor # NoRef

\* lines 501-516: get_or_create each Subject that is not an alias
ImportSubject ==
    /\ pc = "subjects" /\ ~Failed
    /\ LET subj == config.subjects[idx] IN
         subjectRows' = IF IsAlias(subj) THEN subjectRows
                        ELSE GetOrCreate(subjectRows, [name |-> subj.id])
    /\ IF idx < Len(config.subjects)
       THEN idx' = idx + 1 /\ pc' = pc
       ELSE idx' = 1 /\ pc' = "targets"
    /\ UNCHANGED << config, optlevels, run, error, gi, li, ki, lvl,
                    legislative_body, glvl, targObj, bodyRows, targetRows,
                    geolevelRows, levelRows, defaultsRows, userRows,
                    importVars, quantVars, handleVars >>

\* lines 519-539: get_or_create each Target on its dereferenced Subject
ImportTarget ==
    /\ pc = "targets" /\ ~Failed
    /\ LET targ == config.targets[idx]
           subconfig == Deref(SubjectConfig(targ.subjectref))
           found == SubjectsNamed(subconfig.id)
       IN IF found = {}
          THEN \* line 527: filter(...)[0] on an empty QuerySet
               /\ Fail("IndexError")
               /\ UNCHANGED targetRows
          ELSE LET rec == [subject |-> First(found), value |-> targ.value] IN
               /\ targetRows' = GetOrCreate(targetRows, rec)
               /\ targObj' = [targObj EXCEPT ![idx] = RowOf(targetRows', rec)]
               /\ IF idx < Len(config.targets)
                  THEN idx' = idx + 1 /\ pc' = pc /\ gi' = gi
                  ELSE idx' = 1 /\ pc' = "geolevels" /\ gi' = 1
               /\ UNCHANGED << run, error, li, ki, lvl, legislative_body, glvl >>
    /\ UNCHANGED << config, optlevels, bodyRows, subjectRows, geolevelRows,
                    levelRows, defaultsRows, userRows, importVars, quantVars, handleVars >>

\* lines 545-552: get_or_create the GeoLevel; the loop ends after the last
ImportGeoLevel ==
    /\ pc = "geolevels" /\ ~Failed
    /\ IF gi > Len(config.geolevels)
       THEN /\ pc' = "anon"
            /\ UNCHANGED << geolevelRows, glvl, li >>
       ELSE LET rec == [name |-> config.geolevels[gi].name] IN
            /\ geolevelRows' = GetOrCreate(geolevelRows, rec)
            /\ glvl' = RowOf(geolevelRows', rec)
            /\ pc' = "lbody" /\ li' = 1
    /\ UNCHANGED << config, optlevels, run, error, idx, gi, ki, lvl,
                    legislative_body, targObj, bodyRows, subjectRows,
                    targetRows, levelRows, defaultsRows, userRows,
                    importVars, quantVars, handleVars >>

\* lines 555-562: dereference the LegislativeBody of the next reference
ImportLegislativeBodyRef ==
    /\ pc = "lbody" /\ ~Failed
    /\ LET lbodies == config.geolevels[gi].lbodies IN
       IF li > Len(lbodies)
       THEN /\ pc' = "geolevels" /\ gi' = gi + 1
            /\ UNCHANGED << error, ki, legislative_body >>
       ELSE LET lbconfig == BodyConfig(lbodies[li].ref)
                found == { i \in 1..Len(bodyRows) :
                             bodyRows[i].name = lbconfig.name }
            IN IF GetError(found) # "none"
               THEN /\ error' = GetError(found)
                    /\ UNCHANGED << pc, gi, ki, legislative_body >>
               ELSE /\ legislative_body' = TheOne(found)
                    /\ pc' = "ltarget" /\ ki' = 1
                    /\ UNCHANGED << error, gi >>
    /\ UNCHANGED << config, optlevels, run, idx, li, lvl, glvl, targObj,
                    catalogVars, importVars, quantVars, handleVars >>


\* config.xpath('//GeoLevel[@id="%s"]' % id)[0]
GeoLevelConfig(id) ==
    config.geolevels[CHOOSE i \in 1..Len(config.geolevels) :
                         config.geolevels[i].name = id]

\* line 577: "not targ.get('default') is None"
IsDefault(targ) == targ.default # "absent"

\* lines 578-580: get_or_create the body's LegislativeDefaults, set its target
SetDefault(rows, body, target) ==
    IF \E i \in 1..Len(rows) : rows[i].body = body
    THEN [i \in 1..Len(rows) |->
            IF rows[i].body = body
            THEN [rows[i] EXCEPT !.target = target] ELSE rows[i]]
    ELSE Append(rows, [body |-> body, target |-> target])

\* a parent lookup that does not ask for the entry's own target
ParentLookupAnyTarget(lbody, body, target) ==
    IF lbody.parent = NoRef
    THEN [error |-> "none", parent |-> 0]
    ELSE LET found == { i \in 1..Len(levelRows) :
                          /\ levelRows[i].body = body
                          /\ geolevelRows[levelRows[i].geolevel].name
                                = lbody.parent }
         IN IF found = {} THEN [error |-> "DoesNotExist", parent |-> 0]
            ELSE [error |-> "none", parent |-> First(found)]

\* a parent lookup that falls back to None when the parent level is missing
ParentLookupRootless(lbody, body, target) ==
    [error |-> "none",
     parent |->
        IF lbody.parent = NoRef THEN 0
        ELSE LET found == { i \in 1..Len(levelRows) :
                              /\ levelRows[i].body = body
                              /\ levelRows[i].target = target
                              /\ geolevelRows[levelRows[i].geolevel].name
                                    = lbody.parent }
             IN IF found = {} THEN 0 ELSE First(found)]

\* lines 588-597: the parent LegislativeLevel (0 is None), or the exception
ParentLookup(lbody, body, target) ==
    IF lbody.parent = NoRef
    THEN [error |-> "none", parent |-> 0]
    ELSE LET pconfig == GeoLevelConfig(lbody.parent)
             plvls == { i \in 1..Len(geolevelRows) :
                          geolevelRows[i].name = pconfig.name }
         IN IF GetError(plvls) # "none"
            THEN [error |-> GetError(plvls), parent |-> 0]
            ELSE LET found == { i \in 1..Len(levelRows) :
                                  /\ levelRows[i].body = body
                                  /\ levelRows[i].geolevel = TheOne(plvls)
                                  /\ levelRows[i].target = target }
                 IN IF GetError(found) # "none"
                    THEN [error |-> GetError(found), parent |-> 0]
                    ELSE [error |-> "none", parent |-> TheOne(found)]

\* lines 563-609: one LegislativeTarget of the current GeoLevel and body
ImportLegislativeTarget ==
    /\ pc = "ltarget" /\ ~Failed
    /\ LET lbody == config.geolevels[gi].lbodies[li] IN
       IF ki > Len(lbody.targets)
       THEN /\ pc' = "lbody" /\ li' = li + 1
            /\ UNCHANGED << error, ki, levelRows, defaultsRows >>
       ELSE
         LET targ == lbody.targets[ki]
             tconfig == TargetConfig(targ.ref)
             sconfig == Deref(SubjectConfig(tconfig.subjectref))
             subjects == SubjectsNamed(sconfig.id)
         IN
         IF GetError(subjects) # "none"
         THEN /\ error' = GetError(subjects)
              /\ UNCHANGED << pc, li, ki, levelRows, defaultsRows >>
         ELSE
           LET targets == TargetsWith(TheOne(subjects), tconfig.value) IN
           IF GetError(targets) # "none"
           THEN /\ error' = GetError(targets)
                /\ UNCHANGED << pc, li, ki, levelRows, defaultsRows >>
           ELSE
             LET target == TheOne(targets)
                 looked == ParentLookup(lbody, legislative_body, target)
             IN
             /\ defaultsRows' =
                    IF IsDefault(targ)
                    THEN SetDefault(defaultsRows, legislative_body, target)
                    ELSE defaultsRows
             /\ IF looked.error # "none"
                THEN /\ error' = looked.error
                     /\ UNCHANGED << pc, li, ki, levelRows >>
                ELSE /\ levelRows' = GetOrCreate(levelRows,
                            [body |-> legislative_body, geolevel |-> glvl,
                             target |-> target, parent |-> looked.parent])
                     /\ ki' = ki + 1
                     /\ UNCHANGED << error, pc, li >>
    /\ UNCHANGED << config, optlevels, run, idx, gi, lvl, legislative_body, glvl,
                    targObj, bodyRows, subjectRows, targetRows, geolevelRows,
                    userRows, importVars, quantVars, handleVars >>

\* lines 611-617: the anonymous user; its password is set when it existed
ImportAnonymousUser ==
    /\ pc = "anon" /\ ~Failed
    /\ userRows' =
          IF \E i \in 1..Len(userRows) : userRows[i].username = "anonymous"
          THEN [i \in 1..Len(userRows) |->
                  IF userRows[i].username = "anonymous"
                  THEN [userRows[i] EXCEPT !.password = "anonymous"]
                  ELSE userRows[i]]
          ELSE Append(userRows,
                      [username |-> "anonymous", password |-> "unset"])
    /\ pc' = AfterPrereq
    /\ UNCHANGED << config, optlevels, run, error, idx, gi, li, ki, lvl,
                    legislative_body, glvl, targObj, bodyRows, subjectRows,
                    targetRows, geolevelRows, levelRows, defaultsRows,
                    importVars, quantVars, handleVars >>

(***************************************************************************)
(* Values of import_shape's locals.                                        *)
(***************************************************************************)
Unbound == [kind |-> "unbound"]                   \* never assigned
PyNone == [kind |-> "None"]                       \* line 711
GeomOf(i) == [kind |-> "MultiPolygon", of |-> i]  \* feature i's geometry

NoChildren == [i \in 1..Len(config.subjects) |-> << >>]
NoObjects == [f \in {} |-> 0]
NotRead == [read |-> FALSE, layer |-> << >>]
NoResponse == [raised |-> FALSE, status |-> 0]    \* no call made yet

\* the command is run again against the same configuration and database:
\* the configuration is parsed anew and every local starts over
StartRun ==
    /\ pc = "done" \/ Failed
    /\ run < MaxRuns
    /\ run' = run + 1
    /\ pc' = "bodies" /\ error' = "none"
    /\ idx' = 1 /\ gi' = 1 /\ li' = 1 /\ ki' = 1 /\ lvl' = 1
    /\ legislative_body' = 0 /\ glvl' = 0
    /\ targObj' = [i \in 1..Len(config.targets) |-> 0]
    /\ children' = NoChildren
    /\ subject_fields' = << >> /\ subject_objects' = NoObjects
    /\ fi' = 0 /\ my_geom' = Unbound /\ g' = 0 /\ pending' = {}
    /\ imported' = << >> /\ extent' = "unset"
    /\ calls' = << >> /\ rsp' = NoResponse
    /\ UNCHANGED << config, optlevels, catalogVars, shapefile, geounitRows,
                    charRows, quantVars, options, views, styledir >>

\* the state when handle calls import_prereq on an empty database
InitRun ==
    /\ run = 1 /\ pc = "bodies" /\ error = "none"
    /\ idx = 1 /\ gi = 1 /\ li = 1 /\ ki = 1 /\ lvl = 1
    /\ legislative_body = 0 /\ glvl = 0
    /\ targObj = [i \in 1..Len(config.targets) |-> 0]
    /\ bodyRows = << >> /\ subjectRows = << >> /\ targetRows = << >>
    /\ geolevelRows = << >> /\ levelRows = << >> /\ defaultsRows = << >>
    /\ userRows = << >>
    /\ children = NoChildren
    /\ subject_fields = << >> /\ subject_objects = NoObjects
    /\ fi = 0 /\ my_geom = Unbound /\ g = 0 /\ pending = {}
    /\ geounitRows = << >> /\ charRows = << >>
    /\ raw = 0 /\ number = 0
    /\ imported = << >> /\ views = {} /\ extent = "unset"
    /\ calls = << >> /\ rsp = NoResponse

(***************************************************************************)
(* Hierarchy reconciliation alone: handle without -g (optlevels is None).  *)
(***************************************************************************)
InitPrereq ==
    /\ config \in PrereqConfigs
    /\ optlevels = NoLevels
    /\ options = NoOptions /\ styledir = {}
    /\ shapefile = NotRead
    /\ InitRun

NextPrereq ==
    \/ ImportBody
    \/ ImportSubject
    \/ ImportTarget
    \/ ImportGeoLevel
    \/ ImportLegislativeBodyRef
    \/ ImportLegislativeTarget
    \/ ImportAnonymousUser
    \/ StartRun

SpecPrereq == InitPrereq /\ [][NextPrereq]_vars


(***************************************************************************)
(* The shapefile layer.  A feature carries its geometry type, the place    *)
(* where processing it raises (fault), the fields whose raw value is not a *)
(* decimal number (bad) and the raw value of its other fields, in          *)
(* millionths.  A feature's name is its position in the layer.             *)
(*   fault "geos":   feat.geom.geos raises (line 665)                      *)
(*   fault "repair": simplify or the centroid repair of the geometry       *)
(*                   raises (lines 671-694)                                *)
(*   fault "save":   Geounit(...) or g.save() raises (lines 707-710)       *)
(*   fault "char":   c.save() raises for the feature's values (line 723)   *)
(* valid is FALSE when the geometry or its simplification is reported as   *)
(* not simple or not valid.                                                *)
(***************************************************************************)
Feature(geom_type, fault, bad) ==
    [geom_type |-> geom_type, fault |-> fault, bad |-> bad, val |-> 1234560,
     valid |-> TRUE]

\* a feature whose geometry, or its simplification, is not simple or not
\* valid (lines 698-705)
NotValid(feat) == [feat EXCEPT !.valid = FALSE]

Features ==
    { Feature("Polygon", "none", b) : b \in {{}, {"f1"}} }
    \cup { Feature("Polygon", f, {}) : f \in {"geos", "repair", "save", "char"} }
    \cup { Feature("MultiPolygon", "none", {}) }
    \cup { Feature("Point", "none", {}) }

RECURSIVE SeqsUpTo(_, _)
SeqsUpTo(S, n) ==
    IF n = 0 THEN { << >> }
    ELSE LET shorter == SeqsUpTo(S, n - 1) IN
         shorter \cup { Append(l, x) : l \in shorter, x \in S }

Layers == SeqsUpTo(Features, MaxFeatures)

(***************************************************************************)
(* The Characteristic Quantizer (line 720).  Decimal('000000.0000',        *)
(* 'ROUND_DOWN') passes 'ROUND_DOWN' as the constructor's context, which   *)
(* is not used for a well-formed literal, so quantize() rounds with the    *)
(* rounding of the default context, ROUND_HALF_EVEN.  Raw values are       *)
(* integers in millionths, results integers in ten-thousandths.            *)
(***************************************************************************)
Abs(n) == IF n < 0 THEN -n ELSE n

\* Decimal(str(v)).quantize(Decimal('0.0000')) under ROUND_HALF_EVEN
Quantize(n) ==
    LET q == Abs(n) \div 100
        r == Abs(n) % 100
        m == IF r > 50 \/ (r = 50 /\ q % 2 = 1) THEN q + 1 ELSE q
    IN IF n < 0 THEN -m ELSE m

(***************************************************************************)
(* handle's import loop and import_geolevel (lines 104-113, 449-475).      *)
(***************************************************************************)
\* geolevel.xpath('LegislativeBodies/LegislativeBody/LegislativeTargets/
\* LegislativeTarget'): the references of all bodies, in document order
RECURSIVE TargetRefs(_, _)
TargetRefs(lbodies, k) ==
    IF k > Len(lbodies) THEN << >>
    ELSE lbodies[k].targets \o TargetRefs(lbodies, k + 1)

SubjectIndex(id) ==
    CHOOSE i \in 1..Len(config.subjects) : config.subjects[i].id = id

Without(seq, x) == SelectSeq(seq, LAMBDA y : y # x)

\* line 472, sconfig.append(salconfig): the element is moved, it leaves
\* the parent it had
AppendChild(ch, parent, child) ==
    [i \in DOMAIN ch |->
        IF i = parent THEN Append(Without(ch[i], child), child)
        ELSE Without(ch[i], child)]

\* lines 466-473: the loop over the target references, from reference k on
RECURSIVE SubjectFields(_, _, _, _)
SubjectFields(trefs, k, ch, fields) ==
    IF k > Len(trefs) THEN [children |-> ch, fields |-> fields]
    ELSE LET tconfig == TargetConfig(trefs[k].ref)
             s == SubjectIndex(tconfig.subjectref)
             sconfig == config.subjects[s]
             moved == IF sconfig.aliasfor # NoRef
                      THEN AppendChild(ch, s, SubjectIndex(sconfig.aliasfor))
                      ELSE ch
         IN SubjectFields(trefs, k + 1, moved, Append(fields, s))

\* line 111: "i in optlevels"; the values -g appends are strings
InLevels(i, values) ==
    \E k \in 1..Len(values) : values[k] = [type |-> "int", value |-> i]

\* lines 109-113 and 457-473: the next GeoLevel of handle's loop; when it is
\* to be imported, import_geolevel builds gconfig
HandleGeoLevel ==
    /\ pc = "levels" /\ ~Failed
    /\ IF lvl > Len(config.geolevels)
       THEN /\ pc' = AfterLevels
            /\ UNCHANGED << lvl, children, subject_fields, imported >>
       ELSE IF Len(optlevels.values) = 0 \/ InLevels(lvl - 1, optlevels.values)
       THEN LET built == SubjectFields(
                            TargetRefs(config.geolevels[lvl].lbodies, 1), 1,
                            children, << >>)
            IN /\ children' = built.children
               /\ subject_fields' = built.fields
               /\ imported' = Append(imported, lvl - 1)
               /\ pc' = "shape"
               /\ UNCHANGED lvl
       ELSE /\ lvl' = lvl + 1
            /\ UNCHANGED << pc, children, subject_fields, imported >>
    /\ UNCHANGED << config, optlevels, run, error, idx, gi, li, ki,
                    legislative_body, glvl, targObj, catalogVars,
                    subject_objects, shapefile, fi, my_geom, g, pending,
                    geounitRows, charRows, quantVars, options, views, extent,
                    styledir, calls, rsp >>

(***************************************************************************)
(* import_shape (lines 619-737).                                           *)
(***************************************************************************)
\* lines 643-649: the Subject row of one entry of subject_fields, or the
\* exception of the lookup; s indexes the Subject element
SubjectLookup(s, ch) ==
    LET names == IF ch[s] = << >>
                 THEN << config.subjects[s].id >>
                 ELSE [k \in 1..Len(ch[s]) |-> config.subjects[ch[s][k]].id]
        errs == { k \in 1..Len(names) :
                    GetError(SubjectsNamed(names[k])) # "none" }
    IN IF errs # {}
       THEN [error |-> GetError(SubjectsNamed(names[First(errs)])), sub |-> 0]
       ELSE [error |-> "none",
             sub |-> TheOne(SubjectsNamed(names[Len(names)]))]

\* lines 639-650: the dict built by the loop, a later entry of the same
\* field replacing an earlier one
RECURSIVE SubjectObjects(_, _, _, _)
SubjectObjects(fields, k, ch, objs) ==
    IF k > Len(fields) THEN [error |-> "none", objects |-> objs]
    ELSE LET looked == SubjectLookup(fields[k], ch)
             field == config.subjects[fields[k]].field
         IN IF looked.error # "none"
            THEN [error |-> looked.error, objects |-> objs]
            ELSE SubjectObjects(fields, k + 1, ch,
                    [f \in DOMAIN objs \cup {field} |->
                        IF f = field THEN looked.sub ELSE objs[f]])

\* line 635: Geolevel.objects.get(name=config['geolevel'])
LevelRow ==
    TheOne({ i \in 1..Len(geolevelRows) :
               geolevelRows[i].name = config.geolevels[lvl].name })

\* lines 626-655: open the layer, look the GeoLevel up, map fields to
\* Subject rows.  The file is the same every time it is opened.
ImportShapeSetup ==
    /\ pc = "shape" /\ ~Failed
    /\ IF shapefile.read
       THEN UNCHANGED shapefile
       ELSE \E layer \in Layers :
               shapefile' = [read |-> TRUE, layer |-> layer]
    /\ LET built == SubjectObjects(subject_fields, 1, children, NoObjects) IN
       IF built.error # "none"
       THEN /\ error' = built.error
            /\ UNCHANGED << pc, subject_objects, fi, my_geom >>
       ELSE /\ subject_objects' = built.objects
            /\ fi' = 0 /\ my_geom' = Unbound
            /\ pc' = "feature"
            /\ UNCHANGED error
    /\ UNCHANGED << config, optlevels, run, idx, gi, li, ki, lvl,
                    legislative_body, glvl, targObj, catalogVars, children,
                    subject_fields, g, pending, geounitRows, charRows,
                    quantVars, handleVars >>

\* lines 667-670: my_geom after the coercion; there is no else branch, so
\* for any other type my_geom keeps the value it had
Coerce(i, feat, prev) ==
    IF feat.geom_type \in {"MultiPolygon", "Polygon"} THEN GeomOf(i)
    ELSE prev

\* checks that reject the geometry they report
VerboseChecksEnforced(geom) == ~geom.valid

\* lines 697-705: does reading and printing .simple and .valid of the
\* geometry and of its simplification raise; the checks only print
VerboseChecksRaise(geom) == FALSE

\* lines 663-717: the outcome of the try block for feature i: whether it
\* raised, and my_geom afterwards
TryGeounit(i, feat, prev, verbose) ==
    IF feat.fault = "geos"
    THEN [raised |-> TRUE, my_geom |-> prev]
    ELSE LET geom == Coerce(i, feat, prev) IN
         IF geom.kind # "MultiPolygon"
         THEN \* line 671 on an unbound name or on None
              [raised |-> TRUE, my_geom |-> geom]
         ELSE IF shapefile.layer[geom.of].fault = "repair"
         THEN [raised |-> TRUE, my_geom |-> geom]
         ELSE IF verbose /\ VerboseChecksRaise(shapefile.layer[geom.of])
         THEN [raised |-> TRUE, my_geom |-> geom]
         ELSE IF feat.fault = "save"
         THEN [raised |-> TRUE, my_geom |-> geom]
         ELSE [raised |-> FALSE, my_geom |-> geom]

\* lines 656-717: the next feature of the layer.  The Geounit is saved
\* with the geometry my_geom holds and the feature's name; a feature whose
\* try block raises is skipped (line 717).
ImportFeature ==
    /\ pc = "feature" /\ ~Failed
    /\ IF fi >= Len(shapefile.layer)
       THEN /\ pc' = "levels" /\ lvl' = lvl + 1
            /\ UNCHANGED << fi, my_geom, g, pending, geounitRows >>
       ELSE LET i == fi + 1
                tried == TryGeounit(i, shapefile.layer[i], my_geom,
                                    options.debug)
            IN IF tried.raised
               THEN /\ fi' = i
                    /\ my_geom' = tried.my_geom
                    /\ UNCHANGED << pc, lvl, g, pending, geounitRows >>
               ELSE /\ geounitRows' = Append(geounitRows,
                           [geom |-> tried.my_geom.of, name |-> i,
                            geolevel |-> LevelRow])
                    /\ g' = Len(geounitRows')
                    /\ my_geom' = PyNone
                    /\ pending' = DOMAIN subject_objects
                    /\ pc' = "chars"
                    /\ UNCHANGED << fi, lvl >>
    /\ UNCHANGED << config, optlevels, run, error, idx, gi, li, ki,
                    legislative_body, glvl, targObj, catalogVars, children,
                    subject_fields, subject_objects, shapefile, charRows,
                    quantVars, handleVars >>

\* lines 719-732: the next entry of subject_objects.iteritems() for the
\* feature just saved.  The value is parsed and quantized outside the try
\* (line 720); a save that raises is replaced by a zero row (lines 724-726).
ImportCharacteristic ==
    /\ pc = "chars" /\ ~Failed
    /\ IF pending = {}
       THEN /\ pc' = "feature" /\ fi' = fi + 1
            /\ UNCHANGED << error, pending, charRows >>
       ELSE \E attr \in pending :
            LET feat == shapefile.layer[fi + 1] IN
            IF attr \in feat.bad
            THEN /\ error' = "InvalidOperation"
                 /\ UNCHANGED << pc, fi, pending, charRows >>
            ELSE /\ charRows' = Append(charRows,
                        [subject |-> subject_objects[attr],
                         number |-> IF feat.fault = "char" THEN 0
                                    ELSE Quantize(feat.val),
                         geounit |-> g])
                 /\ pending' = pending \ {attr}
                 /\ UNCHANGED << error, pc, fi >>
    /\ UNCHANGED << config, optlevels, run, idx, gi, li, ki, lvl,
                    legislative_body, glvl, targObj, catalogVars, children,
                    subject_fields, subject_objects, shapefile, my_geom, g,
                    geounitRows, quantVars, handleVars >>

(***************************************************************************)
(* Reconciliation followed by the import of the GeoLevels.                 *)
(***************************************************************************)
\* the LegislativeBodies of the one GeoLevel: a subject alone, the same
\* subject under two bodies, two subjects (or a subject and its alias)
\* under one body
ImportLegBodies ==
    { << LegBodyRef("b1", NoRef, << LegTargetElem("t1", "absent") >>) >>,
      << LegBodyRef("b1", NoRef, << LegTargetElem("t2", "absent") >>) >>,
      << LegBodyRef("b1", NoRef, << LegTargetElem("t1", "absent") >>),
         LegBodyRef("b2", NoRef, << LegTargetElem("t1", "absent") >>) >>,
      << LegBodyRef("b1", NoRef, << LegTargetElem("t1", "absent"),
                                    LegTargetElem("t2", "absent") >>) >>,
      << LegBodyRef("b1", NoRef, << LegTargetElem("t2", "absent"),
                                    LegTargetElem("t3", "absent") >>) >> }

\* id-ref check: every LegislativeTarget names a configured Target
RefsResolve(c) ==
    \A gl \in 1..Len(c.geolevels) :
      \A l \in 1..Len(c.geolevels[gl].lbodies) :
        \A k \in 1..Len(c.geolevels[gl].lbodies[l].targets) :
          \E t \in 1..Len(c.targets) :
            c.targets[t].id = c.geolevels[gl].lbodies[l].targets[k].ref

ImportConfigs ==
    { c \in { ConfigOf(s, t, << GeoLevelElem("g1", l) >>) :
                s \in SubjectLists, t \in TargetLists, l \in ImportLegBodies } :
        RefsResolve(c) }

\* every GeoLevel (an empty list), GeoLevel 0 as a number, "0" as -g gives it
ImportLevels ==
    { Levels(<< >>), Levels(<< [type |-> "int", value |-> 0] >>),
      Levels(<< [type |-> "str", value |-> 0] >>) }

InitImport ==
    /\ config \in ImportConfigs
    /\ optlevels \in ImportLevels
    /\ options = NoOptions /\ styledir = {}
    /\ shapefile = NotRead
    /\ InitRun

NextImport ==
    \/ NextPrereq
    \/ HandleGeoLevel
    \/ ImportShapeSetup
    \/ ImportFeature
    \/ ImportCharacteristic

SpecImport == InitImport /\ [][NextImport]_vars

(***************************************************************************)
(* The quantizer alone, on every raw value of a range.                     *)
(***************************************************************************)
RawValues == (-MaxRaw..MaxRaw) \cup {1234560, -1234560}

QuantizeValue ==
    /\ pc = "quantize"
    /\ number' = Quantize(raw)
    /\ pc' = "quantized"
    /\ UNCHANGED << config, optlevels, run, error, idx, gi, li, ki, lvl,
                    legislative_body, glvl, targObj, catalogVars, importVars,
                    raw, handleVars >>

InitQuantize ==
    /\ config \in { c \in ImportConfigs : c.subjects[2].aliasfor = NoRef
                                          /\ c.subjects[3].aliasfor = NoRef
                                          /\ c.subjects[2].field = "f2"
                                          /\ Len(c.targets) = 2
                                          /\ Len(c.geolevels[1].lbodies) = 2 }
    /\ optlevels = NoLevels
    /\ run = 1 /\ pc = "quantize" /\ error = "none"
    /\ idx = 1 /\ gi = 1 /\ li = 1 /\ ki = 1 /\ lvl = 1
    /\ legislative_body = 0 /\ glvl = 0
    /\ targObj = [i \in 1..Len(config.targets) |-> 0]
    /\ bodyRows = << >> /\ subjectRows = << >> /\ targetRows = << >>
    /\ geolevelRows = << >> /\ levelRows = << >> /\ defaultsRows = << >>
    /\ userRows = << >>
    /\ children = NoChildren
    /\ subject_fields = << >> /\ subject_objects = NoObjects
    /\ shapefile = NotRead
    /\ fi = 0 /\ my_geom = Unbound /\ g = 0 /\ pending = {}
    /\ geounitRows = << >> /\ charRows = << >>
    /\ raw \in RawValues /\ number = 0
    /\ options = NoOptions /\ styledir = {}
    /\ imported = << >> /\ views = {} /\ extent = "unset"
    /\ calls = << >> /\ rsp = NoResponse

NextQuantize == QuantizeValue

SpecQuantize == InitQuantize /\ [][NextQuantize]_vars

(***************************************************************************)
(* create_views (lines 408-447).  CREATE OR REPLACE VIEW keeps one view    *)
(* per name; a view is its name and the ids its WHERE clause filters on    *)
(* (0: no such filter).                                                    *)
(***************************************************************************)
View(name, geolevel_id, subject_id) ==
    [name |-> name, geolevel_id |-> geolevel_id, subject_id |-> subject_id]

\* cursor.execute("CREATE OR REPLACE VIEW ..."); transaction.commit()
CreateOrReplace(vs, view) ==
    { v \in vs : v.name # view.name } \cup {view}

\* a demographic view filtered on the first Subject whatever the subject
DemoViewFirstSubject(gl, sub) ==
    View("demo_" \o geolevelRows[gl].name \o "_" \o subjectRows[sub].name,
         gl, 1)

\* lines 440-443: the demographic view of a Geolevel row and a Subject row
DemoView(gl, sub) ==
    View("demo_" \o geolevelRows[gl].name \o "_" \o subjectRows[sub].name,
         gl, sub)

\* line 433: the boundary view of a Geolevel row
SimpleView(gl) == View("simple_" \o geolevelRows[gl].name, gl, 0)

\* lines 439-447: the loop over Subject.objects.all(), from row sub on
RECURSIVE DemoViews(_, _, _)
DemoViews(vs, gl, sub) ==
    IF sub > Len(subjectRows) THEN vs
    ELSE DemoViews(CreateOrReplace(vs, DemoView(gl, sub)), gl, sub + 1)

\* lines 418-430: the views simple_district and identify_geounit
CreateViews ==
    /\ pc = "views" /\ ~Failed
    /\ views' = CreateOrReplace(
                    CreateOrReplace(views, View("simple_district", 0, 0)),
                    View("identify_geounit", 0, 0))
    /\ idx' = 1
    /\ pc' = "geolevel_views"
    /\ UNCHANGED << config, optlevels, run, error, gi, li, ki, lvl,
                    legislative_body, glvl, targObj, catalogVars, importVars,
                    quantVars, options, imported, extent, styledir, calls,
                    rsp >>

\* lines 432-447: the views of the next row of Geolevel.objects.all()
CreateGeolevelViews ==
    /\ pc = "geolevel_views" /\ ~Failed
    /\ IF idx > Len(geolevelRows)
       THEN /\ pc' = AfterViews
            /\ UNCHANGED << idx, views >>
       ELSE /\ views' = DemoViews(CreateOrReplace(views, SimpleView(idx)),
                                  idx, 1)
            /\ idx' = idx + 1
            /\ UNCHANGED pc
    /\ UNCHANGED << config, optlevels, run, error, gi, li, ki, lvl,
                    legislative_body, glvl, targObj, catalogVars, importVars,
                    quantVars, options, imported, extent, styledir, calls,
                    rsp >>

(***************************************************************************)
(* configure_geoserver and rest_config (lines 127-406).  A REST call is    *)
(* its kind (the resource its URL addresses), its method and the names it  *)
(* carries; the statements between two calls belong to the later call.     *)
(***************************************************************************)
RestCall(kind, method, name, style) ==
    [kind |-> kind, method |-> method, name |-> name, style |-> style]

\* the four calls of a layer with the binding issued before the upload
LayerCallsBindFirst(layer, style) ==
    << RestCall("featuretype", "POST", layer, NoRef),
       RestCall("style", "POST", style, style),
       RestCall("binding", "PUT", layer, style),
       RestCall("upload", "PUT", style, style) >>

\* lines 205-248, 259-302 and 310-353: the calls that set up one layer
LayerCalls(layer, style) ==
    << RestCall("featuretype", "POST", layer, NoRef),
       RestCall("style", "POST", style, style),
       RestCall("upload", "PUT", style, style),
       RestCall("binding", "PUT", layer, style) >>

\* lines 204-356: the calls of the loop over Subject.objects.all(), from
\* row sub on; the first Subject also brings the layers demo_<geolevel>
\* and <geolevel>_boundaries
RECURSIVE SubjectCalls(_, _)
SubjectCalls(gl, sub) ==
    IF sub > Len(subjectRows) THEN << >>
    ELSE LET gname == geolevelRows[gl].name
             sname == subjectRows[sub].name
         IN LayerCalls("demo_" \o gname \o "_" \o sname,
                       gname \o "_" \o sname)
            \o (IF sub = 1
                THEN LayerCalls("demo_" \o gname, gname \o "_none")
                     \o LayerCalls(gname \o "_boundaries",
                                   gname \o "_boundaries")
                ELSE << >>)
            \o SubjectCalls(gl, sub + 1)

\* lines 190-356: the calls of the loop over Geolevel.objects.all(), from
\* row gl on
RECURSIVE GeolevelCalls(_)
GeolevelCalls(gl) ==
    IF gl > Len(geolevelRows) THEN << >>
    ELSE << RestCall("featuretype", "POST",
                     "simple_" \o geolevelRows[gl].name, NoRef) >>
         \o SubjectCalls(gl, 1)
         \o GeolevelCalls(gl + 1)

\* lines 146-356: every call of configure_geoserver, in program order
ProvisioningCalls ==
    << RestCall("namespace", "POST", "ns", NoRef),
       RestCall("datastore", "POST", "PostGIS", NoRef),
       RestCall("featuretype", "POST", "identify_geounit", NoRef),
       RestCall("featuretype", "POST", "simple_district", NoRef) >>
    \o GeolevelCalls(1)

\* what the server may answer: no answer (the connection fails, line 398)
\* or a status
Responses ==
    { [raised |-> TRUE, status |-> 0] }
    \cup { [raised |-> FALSE, status |-> st] :
             st \in {200, 201, 204, 404, 500} }

\* the class of an answer
Answer(r) ==
    IF r.raised THEN "none"
    ELSE IF r.status \div 100 = 2 THEN "2xx" ELSE "other"

\* a rest_config that only fails when the connection does
rest_config_any_status(r) == ~r.raised

\* lines 379-406: the value rest_config returns for a response
rest_config(r) == ~r.raised /\ r.status \in {200, 201}

\* lines 361-377: get_style_contents returns None for a missing file
StyleMissing(call) ==
    call.kind = "style" /\ (call.style \o ".sld") \notin styledir

\* line 120: Geounit.objects.all().extent().  Over an empty table the
\* aggregate is NULL: depending on the Django release the conversion of
\* the box raises TypeError or extent() returns None.
GeounitExtent ==
    /\ pc = "extent" /\ ~Failed
    /\ IF geounitRows = << >>
       THEN \/ error' = "TypeError" /\ UNCHANGED << pc, extent >>
            \/ extent' = "None" /\ pc' = "geoserver" /\ UNCHANGED error
       ELSE extent' = "box" /\ pc' = "geoserver" /\ UNCHANGED error
    /\ UNCHANGED << config, optlevels, run, idx, gi, li, ki, lvl,
                    legislative_body, glvl, targObj, catalogVars, importVars,
                    quantVars, options, imported, views, styledir, calls,
                    rsp >>

\* lines 146-359: the next call of configure_geoserver.  Formatting None
\* as the extent of a feature type raises (line 172); a missing style file
\* or a False from rest_config ends configure_geoserver, whose result
\* handle ignores (line 121).
ConfigureGeoserver ==
    /\ pc = "geoserver" /\ ~Failed
    /\ LET k == Len(calls) + 1 IN
       IF k > Len(ProvisioningCalls)
       THEN pc' = "done" /\ UNCHANGED << error, calls, rsp >>
       ELSE LET call == ProvisioningCalls[k] IN
            IF call.kind = "featuretype" /\ extent = "None"
            THEN error' = "TypeError" /\ UNCHANGED << pc, calls, rsp >>
            ELSE IF StyleMissing(call)
            THEN pc' = "done" /\ UNCHANGED << error, calls, rsp >>
            ELSE \E r \in Responses :
                   /\ rsp' = r
                   /\ calls' = Append(calls,
                                      [call |-> call, answer |-> Answer(r)])
                   /\ pc' = IF rest_config(r) THEN pc ELSE "done"
                   /\ UNCHANGED error
    /\ UNCHANGED << config, optlevels, run, idx, gi, li, ki, lvl,
                    legislative_body, glvl, targObj, catalogVars, importVars,
                    quantVars, options, imported, views, extent, styledir >>

(***************************************************************************)
(* The whole of handle: reconciliation, the import of the GeoLevels, the   *)
(* views and the provisioning of the map server.                           *)
(***************************************************************************)
\* two GeoLevels, the second below the first or on a target of its own
HandleConfigs ==
    { ConfigOf(s, << TargetElem("t1", "s1", 1), TargetElem("t2", "s2", 1) >>,
               << GeoLevelElem("g1",
                     << LegBodyRef("b1", NoRef,
                                   << LegTargetElem("t1", "absent") >>) >>),
                  GeoLevelElem("g2", << l2 >>) >>) :
        s \in { x \in SubjectLists :
                  x[2].field = "f2" /\ x[3].aliasfor = NoRef },
        l2 \in { LegBodyRef("b1", "g1", << LegTargetElem("t1", "absent") >>),
                 LegBodyRef("b1", NoRef, << LegTargetElem("t2", "absent") >>) } }

\* no -g, every GeoLevel, and indexes as -g gives them and as numbers
HandleLevels ==
    { NoLevels, Levels(<< >>),
      Levels(<< [type |-> "str", value |-> 0] >>),
      Levels(<< [type |-> "int", value |-> 1] >>),
      Levels(<< [type |-> "int", value |-> 1],
                [type |-> "int", value |-> 0] >>) }

\* the shapefile: empty, one feature, features reported as not valid
HandleLayers ==
    { << >>,
      << Feature("Polygon", "none", {}) >>,
      << NotValid(Feature("Polygon", "none", {})),
         Feature("MultiPolygon", "none", {}) >>,
      << Feature("Point", "none", {}),
         NotValid(Feature("MultiPolygon", "none", {})) >> }

\* the style files of every layer the configurations can bring
StyleFiles ==
    { gname \o "_" \o sname \o ".sld" :
        gname \in {"g1", "g2"},
        sname \in {"s1", "s2", "s3", "none", "boundaries"} }

InitHandle ==
    /\ config \in HandleConfigs
    /\ optlevels \in HandleLevels
    /\ options \in { Options(d, v, gs) : d, v, gs \in BOOLEAN }
    /\ styledir \in { StyleFiles, StyleFiles \ {"g1_none.sld"},
                      StyleFiles \ {"g2_s3.sld"} }
    /\ InitRun
    /\ \E layer \in HandleLayers :
          shapefile = [read |-> TRUE, layer |-> layer]

NextHandle ==
    \/ NextImport
    \/ CreateViews
    \/ CreateGeolevelViews
    \/ GeounitExtent
    \/ ConfigureGeoserver

SpecHandle == InitHandle /\ [][NextHandle]_vars

(***************************************************************************)
(*                              CLAIMS                                     *)
(***************************************************************************)
\* the index of a GeoLevel in document order
GeoLevelIndex(id) ==
    CHOOSE i \in 1..Len(config.geolevels) : config.geolevels[i].name = id

\* the subject an alias chain ends at
Canonical(sconfig) == Deref(Deref(Deref(sconfig)))

\* import_prereq has run to its end in an earlier run (its last statement
\* creates the anonymous user)
EarlierRunCompleted == run > 1 /\ userRows # << >>

\* C1: once a run of import_prereq has completed, no step of a later run
\* against the same configuration adds a LegislativeBody, Subject, Target,
\* GeoLevel, LegislativeLevel, LegislativeDefaults or anonymous-user row.
C1_PrereqIdempotent ==
    [][EarlierRunCompleted =>
          /\ Len(bodyRows') = Len(bodyRows)
          /\ Len(subjectRows') = Len(subjectRows)
          /\ Len(targetRows') = Len(targetRows)
          /\ Len(geolevelRows') = Len(geolevelRows)
          /\ Len(levelRows') = Len(levelRows)
          /\ Len(defaultsRows') = Len(defaultsRows)
          /\ Len(userRows') = Len(userRows)]_vars

\* a second run has completed on a catalog holding levels and defaults
C1_Witness ==
    /\ run = 2 /\ pc = "done" /\ ~Failed
    /\ Len(levelRows) >= 2 /\ defaultsRows # << >> /\ Len(targetRows) >= 2

\* C3: when reconciliation has completed, no Subject row is named after a
\* subject declared with aliasfor, and each Target whose subjectref is an
\* alias is the row bound to the Subject row of the aliased subject.
C3_AliasNeverCreated ==
    (pc = "done" /\ ~Failed) =>
        /\ \A i \in 1..Len(config.subjects) :
              config.subjects[i].aliasfor # NoRef =>
                  SubjectsNamed(config.subjects[i].id) = {}
        /\ \A i \in 1..Len(config.targets) :
              LET sconfig == SubjectConfig(config.targets[i].subjectref) IN
              sconfig.aliasfor # NoRef =>
                  /\ targObj[i] \in 1..Len(targetRows)
                  /\ targetRows[targObj[i]].subject
                        \in SubjectsNamed(sconfig.aliasfor)

\* reconciliation completed with t2 bound through the alias s2 of s1
C3_Witness ==
    /\ pc = "done" /\ ~Failed
    /\ SubjectConfig("s2").aliasfor = "s1"
    /\ targObj[2] # 0
    /\ subjectRows[targetRows[targObj[2]].subject].name = "s1"

\* C4 (as claimed): alias resolution is transitive, so a Target bound to
\* the head of a chain of aliases is bound to the Subject row the chain
\* ends at, and no subject lookup of the reconciler fails.
C4_TransitiveAliasResolution ==
    /\ \A i \in 1..Len(config.targets) :
          targObj[i] # 0 =>
              targetRows[targObj[i]].subject \in
                  SubjectsNamed(
                      Canonical(SubjectConfig(config.targets[i].subjectref)).id)
    /\ ~(Failed /\ pc = "targets")

\* the run is about to process a LegislativeTarget of a LegislativeBody
\* reference whose Parent GeoLevel is declared later in the document
AtForwardParentEntry ==
    /\ pc = "ltarget" /\ ~Failed
    /\ LET lbody == config.geolevels[gi].lbodies[li] IN
         /\ ki <= Len(lbody.targets)
         /\ lbody.parent # NoRef
         /\ GeoLevelIndex(lbody.parent) > gi

C2_GeounitGetOrCreate ==
    \A i, j \in 1..Len(geounitRows) :
        (/\ geounitRows[i].name = geounitRows[j].name
         /\ geounitRows[i].geolevel = geounitRows[j].geolevel) => i = j

\* the features whose geometry repair or Geounit persistence fails: the
\* geometry cannot be read, is neither a Polygon nor a MultiPolygon, cannot
\* be simplified or centred, or the Geounit cannot be saved
FailsGeounit(feat) ==
    \/ feat.fault \in {"geos", "repair", "save"}
    \/ feat.geom_type \notin {"Polygon", "MultiPolygon"}

GeounitsNamed(i) == { k \in 1..Len(geounitRows) : geounitRows[k].name = i }

\* the first run's pass over the layer has ended, normally or by an
\* exception raised inside the feature loop
FirstImportEnded ==
    /\ run = 1 /\ shapefile.read
    /\ pc = "done" \/ (Failed /\ pc \in {"feature", "chars"})

\* C5 (as claimed): when the pass over a layer has ended, every feature
\* that fails geometry repair or persistence has no Geounit and no
\* Characteristic and every other feature, also one after a failing
\* feature, has exactly one Geounit: n-k Geounits for k failures.
C5_FailedFeatureSkipped ==
    FirstImportEnded =>
        /\ \A i \in 1..Len(shapefile.layer) :
              IF FailsGeounit(shapefile.layer[i])
              THEN GeounitsNamed(i) = {}
              ELSE Cardinality(GeounitsNamed(i)) = 1
        /\ Len(geounitRows) =
              Len(shapefile.layer)
              - Cardinality({ i \in 1..Len(shapefile.layer) :
                                FailsGeounit(shapefile.layer[i]) })

\* the Characteristic rows of a Geounit for a Subject row
CharsOf(gu, subject) ==
    { k \in 1..Len(charRows) :
        charRows[k].geounit = gu /\ charRows[k].subject = subject }

\* C6 (as claimed): a value that cannot be parsed never ends the import;
\* once the feature's values are done, the field's Subject has a zero
\* Characteristic for the feature's Geounit.
C6_BadValueZeroFilled ==
    /\ error # "InvalidOperation"
    /\ (run = 1 /\ pc = "feature" /\ fi >= 1 /\ g # 0
        /\ geounitRows[g].name = fi) =>
          \A attr \in DOMAIN subject_objects \cap shapefile.layer[fi].bad :
              \E c \in CharsOf(g, subject_objects[attr]) :
                  charRows[c].number = 0

\* quantization with ROUND_DOWN: the digits beyond the fourth are dropped
QuantizeRoundDown(n) ==
    IF n < 0 THEN -(Abs(n) \div 100) ELSE n \div 100

\* C7 (as claimed): the quantizer truncates toward zero: the result is the
\* raw value with every digit beyond the fourth fractional digit dropped.
C7_QuantizeTruncates ==
    pc = "quantized" => number = QuantizeRoundDown(raw)

\* C9 (as claimed): every Geounit holds the geometry of the feature it is
\* named after, and no feature that is neither a Polygon nor a
\* MultiPolygon has a Geounit.
C9_OwnGeometryOnly ==
    \A i \in 1..Len(geounitRows) :
        /\ geounitRows[i].geom = geounitRows[i].name
        /\ shapefile.layer[geounitRows[i].name].geom_type
              \in {"Polygon", "MultiPolygon"}

\* the Subject rows the targets of the imported GeoLevel resolve to
ConfiguredSubjects ==
    LET trefs == TargetRefs(config.geolevels[1].lbodies, 1) IN
    UNION { SubjectsNamed(
                Canonical(SubjectConfig(
                    TargetConfig(trefs[k].ref).subjectref)).id) :
            k \in 1..Len(trefs) }

\* the Geounits of the first run whose characteristics are all written
DoneGeounits ==
    { gu \in 1..Len(geounitRows) :
        run = 1 /\ ~Failed /\ (gu < g \/ pc # "chars") }

\* C10 (as claimed): no Geounit has two Characteristics for one Subject
\* row, and an imported feature has exactly one Characteristic for each
\* Subject its GeoLevel's targets are bound to.
C10_OneCharacteristicPerSubject ==
    /\ \A a, b \in 1..Len(charRows) :
          (/\ charRows[a].geounit = charRows[b].geounit
           /\ charRows[a].subject = charRows[b].subject) => a = b
    /\ \A gu \in DoneGeounits : \A sub \in ConfiguredSubjects :
          Cardinality(CharsOf(gu, sub)) = 1

\* following parent references from level i for at most n steps ends at a
\* level with no parent
RECURSIVE ChainEnds(_, _)
ChainEnds(i, n) ==
    IF levelRows[i].parent = 0 THEN TRUE
    ELSE IF n = 0 \/ levelRows[i].parent \notin 1..Len(levelRows) THEN FALSE
    ELSE ChainEnds(levelRows[i].parent, n - 1)

\* C15: the parent references of the LegislativeLevel rows form a forest:
\* a level's parent, if it has one, is a level created before it, with the
\* same legislative body and the same target, and following the parent
\* references from any level ends at a level with no parent.
C15_ParentForest ==
    \A i \in 1..Len(levelRows) :
        LET p == levelRows[i].parent IN
        /\ p # 0 =>
              /\ p \in 1..Len(levelRows) /\ p < i
              /\ levelRows[p].body = levelRows[i].body
              /\ levelRows[p].target = levelRows[i].target
        /\ ChainEnds(i, Len(levelRows))

\* after two runs, a level of g2 hangs below a level of g1 and another
\* level has no parent
C15_Witness ==
    /\ run = 2 /\ pc = "done" /\ ~Failed
    /\ \E i, j \in 1..Len(levelRows) :
          /\ levelRows[i].parent = j
          /\ \E k \in 1..Len(levelRows) : k # j /\ levelRows[k].parent = 0

\* the LegislativeTarget entries of body b, in document order, from
\* GeoLevel gl on
RECURSIVE BodyEntries(_, _)
BodyEntries(b, gl) ==
    IF gl > Len(config.geolevels) THEN << >>
    ELSE TargetRefs(SelectSeq(config.geolevels[gl].lbodies,
                              LAMBDA l : l.ref = b), 1)
         \o BodyEntries(b, gl + 1)

\* the entries the configuration marks as the body's default
DefaultMarked(b) ==
    SelectSeq(BodyEntries(b, 1), LAMBDA e : e.default = "true")

\* the LegislativeDefaults rows of the body configured with id b
DefaultsOf(b) ==
    { i \in 1..Len(defaultsRows) :
        bodyRows[defaultsRows[i].body].name = BodyConfig(b).name }

\* the Target row of the configured Target with id t
TargetRowOf(t) ==
    targObj[CHOOSE i \in 1..Len(config.targets) : config.targets[i].id = t]

\* C16 (as claimed): a body has at most one LegislativeDefaults row; only
\* entries marked default="true" create or change it, so after a completed
\* run a body without such an entry has no row and any other body's row
\* names the Target of its last entry marked default.
C16_DefaultsFollowMarkedEntries ==
    /\ \A i, j \in 1..Len(defaultsRows) :
          defaultsRows[i].body = defaultsRows[j].body => i = j
    /\ (pc = "done" /\ ~Failed) =>
          \A k \in 1..Len(config.bodies) :
              LET b == config.bodies[k].id
                  marked == DefaultMarked(b)
              IN IF marked = << >> THEN DefaultsOf(b) = {}
                 ELSE /\ DefaultsOf(b) # {}
                      /\ \A i \in DefaultsOf(b) :
                            defaultsRows[i].target
                                = TargetRowOf(marked[Len(marked)].ref)

\* C17 (as claimed): the importer's lookup of the Subject rows never
\* fails, and the field of every subject configured as an alias is mapped
\* to the Subject row of the subject it stands for, also when two aliases
\* of one subject are referenced by the targets of the GeoLevel.
C17_AliasFieldsMapToCanonical ==
    /\ ~(pc = "shape" /\ Failed)
    /\ (pc \in {"feature", "chars"} /\ ~Failed) =>
          \A k \in 1..Len(subject_fields) :
              LET sconfig == config.subjects[subject_fields[k]] IN
              sconfig.aliasfor # NoRef =>
                  /\ sconfig.field \in DOMAIN subject_objects
                  /\ subject_objects[sconfig.field]
                        \in SubjectsNamed(Canonical(sconfig).id)

\* C18 (as claimed): the LegislativeTarget entry at which a run stops on a
\* missing parent level changes no row created before it: every table
\* keeps its rows, the LegislativeDefaults of the body included.
C18_FailingEntryLeavesCatalog ==
    [][(/\ pc = "ltarget" /\ ~Failed
        /\ li <= Len(config.geolevels[gi].lbodies)
        /\ config.geolevels[gi].lbodies[li].parent # NoRef
        /\ error' = "DoesNotExist") =>
          /\ levelRows' = levelRows
          /\ Len(defaultsRows') >= Len(defaultsRows)
          /\ \A i \in 1..Len(defaultsRows) :
                defaultsRows'[i] = defaultsRows[i]]_vars

\* configure_geoserver has ended in this run: it returned or it raised
ProvisioningEnded ==
    options.geoserver /\ (pc = "done" \/ (Failed /\ pc = "geoserver"))

\* the step issues a REST call: the log of the run grows by the call the
\* sequence has at that place, and no call is dropped or replaced
IssuesNextCall ==
    /\ Len(calls') = Len(calls) + 1
    /\ SubSeq(calls', 1, Len(calls)) = calls
    /\ Len(calls') <= Len(ProvisioningCalls)
    /\ calls'[Len(calls')].call = ProvisioningCalls[Len(calls')]

\* C11 (as claimed): the calls are issued in sequence and none is taken
\* back; a call is only issued when the call before it was answered with
\* a 2xx status; and when configure_geoserver ends before the last call of
\* the sequence, the last call it issued was not answered with a 2xx status.
C11_CutAtFirstNon2xx ==
    [][/\ (calls' # calls /\ run' = run) =>
            /\ IssuesNextCall
            /\ calls # << >> => calls[Len(calls)].answer = "2xx"
       /\ (ProvisioningEnded' /\ Len(calls') < Len(ProvisioningCalls')) =>
            /\ calls' # << >>
            /\ calls'[Len(calls')].answer # "2xx"]_vars

\* a response with status 200 or 201
Accepted(r) == ~r.raised /\ r.status \in {200, 201}

\* the call after the last one issued cannot be built: the file of its
\* style is missing, or it is a feature type and there is no extent
NextCallCannotBeBuilt ==
    LET call == ProvisioningCalls[Len(calls) + 1] IN
    \/ call.kind = "style" /\ (call.style \o ".sld") \notin styledir
    \/ call.kind = "featuretype" /\ extent = "None" /\ error = "TypeError"

\* C11 (amended): the calls are issued in sequence and none is taken back;
\* a call is only issued when the call before it was answered with status
\* 200 or 201; and when configure_geoserver ends before the last call of
\* the sequence, either the last call it issued was answered with another
\* status or not at all, or the next call could not be built (style file
\* missing, or no extent to format because there is no Geounit).
C11_CutAtFirstFailure ==
    [][/\ (calls' # calls /\ run' = run) =>
            /\ IssuesNextCall
            /\ calls # << >> => Accepted(rsp)
       /\ (ProvisioningEnded' /\ Len(calls') < Len(ProvisioningCalls')) =>
            \/ calls' # << >> /\ ~Accepted(rsp')
            \/ NextCallCannotBeBuilt']_vars

\* configure_geoserver returned after a call in the middle of the sequence
\* was answered with an error status
C11_Witness ==
    /\ pc = "done" /\ options.geoserver
    /\ Len(calls) > 10 /\ Len(calls) < Len(ProvisioningCalls)
    /\ rsp.status = 500

\* call j of the run is of the given kind and name and was answered 2xx
Succeeded(j, kind, name) ==
    /\ calls[j].call.kind = kind
    /\ calls[j].call.name = name
    /\ calls[j].answer = "2xx"

\* C12: every data-store call comes after a successful namespace call,
\* every feature-type call after a successful data-store call, and every
\* layer-style binding after the successful creation of the layer's
\* feature type, then of its style, then the upload of the style's content.
C12_DependencyOrder ==
    \A k \in 1..Len(calls) :
        LET c == calls[k].call IN
        /\ c.kind = "datastore" =>
              \E j \in 1..(k - 1) : Succeeded(j, "namespace", "ns")
        /\ c.kind = "featuretype" =>
              \E j \in 1..(k - 1) : Succeeded(j, "datastore", "PostGIS")
        /\ c.kind = "binding" =>
              \E m \in 1..(k - 1) :
                 /\ Succeeded(m, "upload", c.style)
                 /\ \E j \in 1..(m - 1) :
                       /\ Succeeded(j, "style", c.style)
                       /\ \E i \in 1..(j - 1) :
                             Succeeded(i, "featuretype", c.name)

\* every call of the sequence was issued, the bindings of the layers
\* demo_g2_s1, demo_g2 and g2_boundaries among them
C12_Witness ==
    /\ pc = "done" /\ calls # << >>
    /\ Len(calls) = Len(ProvisioningCalls)
    /\ \A name \in {"demo_g2_s1", "demo_g2", "g2_boundaries"} :
          \E k \in 1..Len(calls) :
              calls[k].call.kind = "binding" /\ calls[k].call.name = name

\* the views of the database with a given name
ViewsNamed(name) == { v \in views : v.name = name }

\* create_views has completed in this run
ViewsCreated ==
    options.views /\ pc \in {"extent", "geoserver", "done"}

PrereqPcs ==
    {"bodies", "subjects", "targets", "geolevels", "lbody", "ltarget", "anon"}

\* the GeoLevel index i is among the values given with -g
GivenIndex(i) ==
    \E k \in 1..Len(optlevels.values) : optlevels.values[k].value = i

\* C20 (as claimed): nothing is imported, no view created and no call
\* issued before import_prereq has returned; no call is issued while the
\* GeoLevels are imported; and once the import loop has ended, the
\* GeoLevels imported are those whose index was given with -g, each once
\* and in document order.
C20_GivenLevelsImported ==
    /\ pc \in PrereqPcs =>
          /\ imported = << >> /\ calls = << >>
          /\ run = 1 => (views = {} /\ geounitRows = << >>)
    /\ pc \in {"levels", "shape", "feature", "chars"} =>
          /\ calls = << >>
          /\ run = 1 => views = {}
    /\ (/\ optlevels.given /\ optlevels.values # << >>
        /\ pc \in {"views", "geolevel_views", "extent", "geoserver", "done"}) =>
          /\ \A i \in 0..(Len(config.geolevels) - 1) :
                GivenIndex(i) <=> \E k \in 1..Len(imported) : imported[k] = i
          /\ \A a, b \in 1..Len(imported) : a < b => imported[a] < imported[b]

====
